---------------------------- MODULE Spec2Model ----------------------------
(***************************************************************************)
(* The local cache of one RRDP server (src/rrdp/server.rs): the gate flags *)
(* `updated` and `broken`, the update mutex, the delta and snapshot update *)
(* paths, the promotion of the temporary directory, broken-detection, and  *)
(* the read path, as a state machine over the threads sharing one Server   *)
(* and the files of its server directory.  Memory is sequentially          *)
(* consistent: a load of a flag returns the value last stored.             *)
(***************************************************************************)
EXTENDS Integers, Sequences, FiniteSets, TLC

(***************************************************************************)
(* Bounds.                                                                 *)
(***************************************************************************)
\* Worker threads sharing the Server.
NumThreads == 2
\* The largest serial: stands for usize::MAX, where checked_add(1) overflows.
MaxSerial == 2
\* The longest delta list of a notification file.
MaxDeltas == 2
\* The request counters saturate here.
MaxCount == 2

Threads == 1..NumThreads
Sessions == {"A", "B"}
Serials == 0..MaxSerial

(***************************************************************************)
(* The data directory.  One object path; an object's body is "x", "y"      *)
(* (one byte each) or "zz" (two bytes), "none" when there is no such file. *)
(***************************************************************************)
Files == {"a"}
Bodies == {"x", "y", "zz"}
Cells == {"none"} \cup Bodies
BodyLen(c) == IF c = "zz" THEN 2 ELSE 1

NoFiles == [f \in Files |-> "none"]
\* No `data` directory at all.
NoDir == [dir |-> FALSE, files |-> NoFiles]
Dirs == {[dir |-> TRUE, files |-> g] : g \in [Files -> Cells]}
DirStates == {NoDir} \cup Dirs

\* ServerDir::_digest: what the SHA-256 context is fed: each entry's name,
\* and for a regular file its length.  The bodies are not hashed.
DigestOf(d) == {<<f, BodyLen(d.files[f])>> : f \in {g \in Files : d.files[g] # "none"}}
Hashes == {DigestOf(d) : d \in Dirs}

\* ServerDir::digest on a directory state: fails when read_dir fails.
DigestOk(d) == d.dir

\* ServerDir::check_digest: the digest is computed and equals `hash`.
WrongCheckDigest(d, hash) == d.dir
check_digest(d, hash) == DigestOk(d) /\ DigestOf(d) = hash

(***************************************************************************)
(* The state file.                                                         *)
(***************************************************************************)
\* kind: "none" (no file), "bad" (a file _load rejects), "ok" (a record).
NoState == [kind |-> "none", session |-> "A", serial |-> 0, hash |-> {}]
BadState == [kind |-> "bad", session |-> "A", serial |-> 0, hash |-> {}]
ServerState(session, serial, hash) ==
    [kind |-> "ok", session |-> session, serial |-> serial, hash |-> hash]
ServerStates == {ServerState(s, n, h) : s \in Sessions, n \in Serials, h \in Hashes}
StateFiles == {NoState, BadState} \cup ServerStates

(***************************************************************************)
(* The notification file: session, serial and the serials of its deltas,   *)
(* in the file's order.                                                    *)
(***************************************************************************)
DeltaLists == UNION {[1..n -> Serials] : n \in 0..MaxDeltas}
NotificationFile(session, serial, ds) ==
    [session_id |-> session, serial |-> serial, deltas |-> ds]
Notifications ==
    {NotificationFile(s, n, ds) : s \in Sessions, n \in Serials, ds \in DeltaLists}
NoNotify == NotificationFile("A", 0, <<>>)

(***************************************************************************)
(* Server::calc_deltas.                                                    *)
(***************************************************************************)
CalcErr == [kind |-> "err", deltas |-> <<>>]
CalcNone == [kind |-> "none", deltas |-> <<>>]
CalcSome(ds) == [kind |-> "some", deltas |-> ds]

RECURSIVE WalkDeltas(_, _)
\* The loop of calc_deltas over the remaining slice.
WalkDeltas(deltas, serial) ==
    IF deltas = <<>> THEN CalcErr
    ELSE IF Head(deltas) > serial THEN CalcErr
    ELSE IF Head(deltas) = serial THEN CalcSome(deltas)
    ELSE WalkDeltas(Tail(deltas), serial)

\* notify.deltas.last().map(|delta| delta.0) != Some(notify.serial)
LastDiffers(notify) ==
    IF notify.deltas = <<>> THEN TRUE
    ELSE notify.deltas[Len(notify.deltas)] # notify.serial

WrongCalcDeltas(notify, state) ==
    IF notify.session_id # state.session THEN CalcErr
    ELSE IF notify.serial = state.serial THEN CalcNone
    ELSE IF LastDiffers(notify) THEN CalcErr
    ELSE IF state.serial = MaxSerial THEN CalcErr
    ELSE CalcSome(notify.deltas)

calc_deltas(notify, state) ==
    IF notify.session_id # state.session THEN CalcErr
    ELSE IF notify.serial = state.serial THEN CalcNone
    ELSE IF LastDiffers(notify) THEN CalcErr
    ELSE IF state.serial = MaxSerial THEN CalcErr
    ELSE WalkDeltas(notify.deltas, state.serial + 1)

(***************************************************************************)
(* DeltaTargets: per object path, what the staged deltas do to it.         *)
(***************************************************************************)
Ops == {"keep", "del"} \cup Bodies
NoTargets == [f \in Files |-> "keep"]
DeltaOps == [Files -> Ops]
\* http.delta appends one delta's operations; a later one overrides.
Stage(targets, ops) ==
    [f \in Files |-> IF ops[f] = "keep" THEN targets[f] ELSE ops[f]]
\* DeltaTargets::apply on a data directory.
ApplyTargets(d, targets) ==
    [dir |-> TRUE,
     files |-> [f \in Files |->
        IF targets[f] = "keep" THEN d.files[f]
        ELSE IF targets[f] = "del" THEN "none"
        ELSE targets[f]]]

(***************************************************************************)
(* fs::remove_dir_all on a data directory: it is gone, or, when the call   *)
(* fails, any part of it is left.                                          *)
(***************************************************************************)
Remains(d) ==
    IF ~d.dir THEN {d}
    ELSE {[dir |-> TRUE, files |-> g] : g \in
            {h \in [Files -> Cells] : \A f \in Files : h[f] \in {"none", d.files[f]}}}

(***************************************************************************)
(* State.                                                                  *)
(***************************************************************************)
VARIABLES
    ctor,        \* how the Server was built: "existing", "create", "create_failed"
    updated,     \* Server.updated
    broken,      \* Server.broken
    mutex,       \* Server.mutex: 0 when free, else the thread holding the guard
    baseExists,  \* the server directory exists
    liveState,   \* <server_dir>/state.txt
    liveData,    \* <server_dir>/data
    tmpExists,   \* the temporary directory of the snapshot update exists
    tmpState,    \* <tmp_dir>/state.txt
    tmpData,     \* <tmp_dir>/data
    pc,          \* each thread's position
    frame,       \* each thread's locals inside update
    ret,         \* the value a load_file or remove_unused call returns
    after,       \* the thread's update or load_file call began after an update call returned
    attempts,    \* how often try_update was entered
    notifyReqs,  \* notification_file requests seen by the fetcher
    snapReqs,    \* snapshot requests seen by the fetcher
    tryResult,   \* what try_update returned: "none" (not yet), "ok", "err"
    fetched,     \* session and serial of the notification file the fetcher returned
    updDone,     \* some update call has returned
    foreign,     \* another process has written under the data directory
    saved,       \* the ServerState last written by save
    text,        \* the lines of the state file it was written to
    edit,        \* how the file was changed since, "start" before any save
    loaded       \* what load made of the file, NoState before the load

flags == <<updated, broken>>
liveDir == <<baseExists, liveState, liveData>>
tmpDir == <<tmpExists, tmpState, tmpData>>
fetcher == <<notifyReqs, snapReqs, fetched>>
stateFile == <<saved, text, edit, loaded>>
vars == <<ctor, updated, broken, mutex, baseExists, liveState, liveData,
          tmpExists, tmpState, tmpData, pc, frame, ret, after, attempts,
          notifyReqs, snapReqs, tryResult, fetched, updDone, foreign, saved,
          text, edit, loaded>>

\* The locals of update and the functions it calls.
NoFrame ==
    [notify |-> NoNotify, state |-> NoState, deltas |-> <<>>, asked |-> <<>>,
     targets |-> NoTargets, state_res |-> TRUE, data_res |-> TRUE]

Bump(n) == IF n < MaxCount THEN n + 1 ELSE n


NoFetch == [got |-> FALSE, session_id |-> "A", serial |-> 0]

(***************************************************************************)
(* Construction: Server::existing, Server::create, Server::new.            *)
(***************************************************************************)
\* Server::new: both flags start as `broken`.
WrongNew(b) == [updated |-> FALSE, broken |-> b]
new(b) == [updated |-> b, broken |-> b]

Init ==
    /\ ctor \in {"existing", "create", "create_failed"}
    /\ updated = new(ctor = "create_failed").updated
    /\ broken = new(ctor = "create_failed").broken
    /\ mutex = 0
    \* existing adopts whatever the directory holds; create allocates an
    \* empty one; a failed allocation leaves the empty paths of
    \* ServerDir::broken.
    /\ baseExists = (ctor # "create_failed")
    /\ liveState \in (IF ctor = "existing" THEN StateFiles ELSE {NoState})
    /\ liveData \in (IF ctor = "existing" THEN DirStates ELSE {NoDir})
    /\ tmpExists = FALSE
    /\ tmpState = NoState
    /\ tmpData = NoDir
    /\ pc = [t \in Threads |-> "idle"]
    /\ frame = [t \in Threads |-> NoFrame]
    /\ ret = [t \in Threads |-> "-"]
    /\ after = [t \in Threads |-> FALSE]
    /\ attempts = 0
    /\ notifyReqs = 0
    /\ snapReqs = 0
    /\ tryResult = "none"
    /\ fetched = NoFetch
    /\ updDone = FALSE
    /\ foreign = FALSE
    /\ saved = NoState
    /\ text = <<>>
    /\ edit = "start"
    /\ loaded = NoState

Goto(t, l) == pc' = [pc EXCEPT ![t] = l]
Local(t, f) == frame' = [frame EXCEPT ![t] = f]
\* The caller is back from its call.
Return(t) ==
    /\ pc' = [pc EXCEPT ![t] = "idle"]
    /\ after' = [after EXCEPT ![t] = FALSE]

(***************************************************************************)
(* Server::update.                                                         *)
(***************************************************************************)
\* The flag both checks of update load.
WrongUpdatedLoad == broken
\* self.updated.load(Relaxed)
updated_load == updated

\* A thread calls update.
CallUpdate(t) ==
    /\ pc[t] = "idle"
    /\ Goto(t, "u_fast")
    /\ after' = [after EXCEPT ![t] = updDone]
    /\ UNCHANGED <<ctor, foreign, stateFile, flags, mutex, liveDir, tmpDir, frame, ret, attempts,
                   fetcher, tryResult, updDone>>

\* The first check is left out.
WrongUFast(t) ==
    /\ pc[t] = "u_fast"
    /\ Goto(t, "u_lock")
    /\ UNCHANGED <<ctor, foreign, stateFile, flags, mutex, liveDir, tmpDir, frame, ret, after,
                   attempts, fetcher, tryResult, updDone>>

\* if self.updated.load(Relaxed) { return }
UFast(t) ==
    /\ pc[t] = "u_fast"
    /\ IF updated_load
         THEN Return(t) /\ updDone' = TRUE
         ELSE Goto(t, "u_lock") /\ UNCHANGED <<after, updDone>>
    /\ UNCHANGED <<ctor, foreign, stateFile, flags, mutex, liveDir, tmpDir, frame, ret, attempts,
                   fetcher, tryResult>>

\* let _ = unwrap!(self.mutex.lock()): the guard is dropped at once.
WrongULock(t) ==
    /\ pc[t] = "u_lock"
    /\ mutex = 0
    /\ Goto(t, "u_recheck")
    /\ UNCHANGED <<ctor, foreign, stateFile, flags, mutex, liveDir, tmpDir, frame, ret, after,
                   attempts, fetcher, tryResult, updDone>>

\* let _lock = unwrap!(self.mutex.lock());
ULock(t) ==
    /\ pc[t] = "u_lock"
    /\ mutex = 0
    /\ mutex' = t
    /\ Goto(t, "u_recheck")
    /\ UNCHANGED <<ctor, foreign, stateFile, flags, liveDir, tmpDir, frame, ret, after, attempts,
                   fetcher, tryResult, updDone>>

\* The second check is left out.
WrongURecheck(t) ==
    /\ pc[t] = "u_recheck"
    /\ Goto(t, "t_notify")
    /\ attempts' = Bump(attempts)
    /\ UNCHANGED <<ctor, foreign, stateFile, flags, mutex, liveDir, tmpDir, frame, ret, after,
                   fetcher, tryResult, updDone>>

\* if self.updated.load(Relaxed) { return }, the guard dropped on return;
\* else try_update is entered.
URecheck(t) ==
    /\ pc[t] = "u_recheck"
    /\ IF updated_load
         THEN /\ Return(t)
              /\ mutex' = IF mutex = t THEN 0 ELSE mutex
              /\ updDone' = TRUE
              /\ UNCHANGED attempts
         ELSE /\ Goto(t, "t_notify")
              /\ attempts' = Bump(attempts)
              /\ UNCHANGED <<mutex, after, updDone>>
    /\ UNCHANGED <<ctor, foreign, stateFile, flags, liveDir, tmpDir, frame, ret, fetcher, tryResult>>

\* try_update returns: its locals are gone.
TryOk(t) ==
    /\ Goto(t, "u_store")
    /\ tryResult' = "ok"
    /\ Local(t, NoFrame)
TryErr(t) ==
    /\ Goto(t, "cb_load")
    /\ tryResult' = "err"
    /\ Local(t, NoFrame)
\* The session and serial of a notification file: all that is read of it
\* once calc_deltas has chosen the deltas.
Head2(n) == NotificationFile(n.session_id, n.serial, <<>>)
\* delta_update returned an error and try_update returns it.
WrongDeltaErr(t) ==
    /\ Goto(t, "cb_load")
    /\ Local(t, NoFrame)
\* delta_update returned an error: try_update goes on to snapshot_update.
DeltaErr(t) ==
    /\ Goto(t, "s_create")
    /\ Local(t, [NoFrame EXCEPT !.notify = Head2(frame[t].notify)])

\* let notify = http.notification_file(&self.notify_uri)?;
TNotify(t) ==
    /\ pc[t] = "t_notify"
    /\ notifyReqs' = Bump(notifyReqs)
    /\ \/ \E n \in Notifications :
            /\ Local(t, [frame[t] EXCEPT !.notify = n])
            /\ fetched' = [got |-> TRUE, session_id |-> n.session_id,
                           serial |-> n.serial]
            /\ Goto(t, "d_load")
            /\ UNCHANGED tryResult
       \/ TryErr(t) /\ UNCHANGED fetched
    /\ UNCHANGED <<ctor, foreign, stateFile, flags, mutex, liveDir, tmpDir, ret, after, attempts,
                   snapReqs, updDone>>

(***************************************************************************)
(* Server::delta_update.                                                   *)
(***************************************************************************)
\* let mut state = ServerState::load(self.server_dir.state_path())?;
DLoad(t) ==
    /\ pc[t] = "d_load"
    /\ \/ /\ liveState.kind = "ok"
          /\ Local(t, [frame[t] EXCEPT !.state = liveState])
          /\ Goto(t, "d_calc")
       \/ DeltaErr(t)
    /\ UNCHANGED <<ctor, foreign, stateFile, flags, mutex, liveDir, tmpDir, ret, after, attempts,
                   fetcher, tryResult, updDone>>

\* match Self::calc_deltas(notify, &state)?
DCalc(t) ==
    /\ pc[t] = "d_calc"
    /\ LET res == calc_deltas(frame[t].notify, frame[t].state) IN
         CASE res.kind = "err" -> DeltaErr(t)
           [] res.kind = "none" ->
                /\ Local(t, [frame[t] EXCEPT !.notify = Head2(frame[t].notify)])
                /\ Goto(t, "d_noop")
           [] res.kind = "some" ->
                /\ Local(t, [frame[t] EXCEPT !.notify = Head2(frame[t].notify),
                                             !.deltas = res.deltas])
                /\ Goto(t, "d_collect")
    /\ UNCHANGED <<ctor, foreign, stateFile, flags, mutex, liveDir, tmpDir, ret, after, attempts,
                   fetcher, tryResult, updDone>>

\* None => return Ok(())
WrongDNoop(t) ==
    /\ pc[t] = "d_noop"
    /\ TryOk(t)
    /\ UNCHANGED <<ctor, foreign, stateFile, flags, mutex, liveDir, tmpDir, ret,
                   after, attempts, fetcher, updDone>>

\* None => return self.server_dir.check_digest(&state.hash)
DNoop(t) ==
    /\ pc[t] = "d_noop"
    /\ \/ /\ check_digest(liveData, frame[t].state.hash)
          /\ TryOk(t)
       \/ DeltaErr(t) /\ UNCHANGED tryResult
    /\ UNCHANGED <<ctor, foreign, stateFile, flags, mutex, liveDir, tmpDir, ret, after, attempts,
                   fetcher, updDone>>

\* collect_delta_targets: self.server_dir.check_digest(&state.hash)?;
\* let mut targets = DeltaTargets::new(http.tmp_dir())?;
DCollect(t) ==
    /\ pc[t] = "d_collect"
    /\ \/ /\ check_digest(liveData, frame[t].state.hash)
          /\ Goto(t, "d_fetch")
          /\ UNCHANGED frame
       \/ DeltaErr(t)
    /\ UNCHANGED <<ctor, foreign, stateFile, flags, mutex, liveDir, tmpDir, ret, after, attempts,
                   fetcher, tryResult, updDone>>

\* The loop asks for every other delta only.
WrongDFetch(t) ==
    /\ pc[t] = "d_fetch"
    /\ IF frame[t].deltas = <<>>
         THEN Goto(t, "d_recheck") /\ UNCHANGED frame
         ELSE \/ \E ops \in DeltaOps :
                   /\ Local(t, [frame[t] EXCEPT
                        !.deltas = IF Len(frame[t].deltas) >= 2
                                    THEN Tail(Tail(frame[t].deltas))
                                    ELSE <<>>,
                        !.asked = Append(frame[t].asked, Head(frame[t].deltas)),
                        !.targets = Stage(frame[t].targets, ops)])
                   /\ UNCHANGED pc
              \/ DeltaErr(t)
    /\ UNCHANGED <<ctor, foreign, stateFile, flags, mutex, liveDir, tmpDir, ret,
                   after, attempts, fetcher, tryResult, updDone>>

\* for delta in deltas { http.delta(..., delta, &mut targets, ...)? }
DFetch(t) ==
    /\ pc[t] = "d_fetch"
    /\ IF frame[t].deltas = <<>>
         THEN Goto(t, "d_recheck") /\ UNCHANGED frame
         ELSE \/ \E ops \in DeltaOps :
                   /\ Local(t, [frame[t] EXCEPT
                        !.deltas = Tail(frame[t].deltas),
                        !.asked = Append(frame[t].asked, Head(frame[t].deltas)),
                        !.targets = Stage(frame[t].targets, ops)])
                   /\ UNCHANGED pc
              \/ DeltaErr(t)
    /\ UNCHANGED <<ctor, foreign, stateFile, flags, mutex, liveDir, tmpDir, ret, after, attempts,
                   fetcher, tryResult, updDone>>

\* The digest is not verified again before the apply.
WrongDRecheck(t) ==
    /\ pc[t] = "d_recheck"
    /\ Goto(t, "d_apply")
    /\ UNCHANGED <<ctor, foreign, stateFile, flags, mutex, liveDir, tmpDir, frame, ret, after,
                   attempts, fetcher, tryResult, updDone>>

\* self.server_dir.check_digest(&state.hash)?;
DRecheck(t) ==
    /\ pc[t] = "d_recheck"
    /\ \/ /\ check_digest(liveData, frame[t].state.hash)
          /\ Goto(t, "d_apply")
          /\ UNCHANGED frame
       \/ DeltaErr(t)
    /\ UNCHANGED <<ctor, foreign, stateFile, flags, mutex, liveDir, tmpDir, ret, after, attempts,
                   fetcher, tryResult, updDone>>

\* if let Err(_) = targets.apply() { return Err(Error) }
DApply(t) ==
    /\ pc[t] = "d_apply"
    /\ \/ /\ liveData.dir
          /\ liveData' = ApplyTargets(liveData, frame[t].targets)
          /\ Goto(t, "d_digest")
          /\ UNCHANGED frame
       \/ DeltaErr(t) /\ UNCHANGED liveData
    /\ UNCHANGED <<ctor, foreign, stateFile, flags, mutex, baseExists, liveState, tmpDir, ret,
                   after, attempts, fetcher, tryResult, updDone>>

\* state.serial = notify.serial; state.hash = self.server_dir.digest()
DDigest(t) ==
    /\ pc[t] = "d_digest"
    /\ \/ /\ DigestOk(liveData)
          /\ Local(t, [frame[t] EXCEPT
                         !.state = ServerState(frame[t].state.session,
                                               frame[t].notify.serial,
                                               DigestOf(liveData))])
          /\ Goto(t, "d_save")
       \/ DeltaErr(t)
    /\ UNCHANGED <<ctor, foreign, stateFile, flags, mutex, liveDir, tmpDir, ret, after, attempts,
                   fetcher, tryResult, updDone>>

\* state.save(self.server_dir.state_path()): File::create truncates, then
\* the record is written; a failure leaves the old file or a cut one.
DSave(t) ==
    /\ pc[t] = "d_save"
    /\ \/ /\ baseExists
          /\ liveState' = frame[t].state
          /\ TryOk(t)
       \/ /\ liveState' \in {liveState} \cup (IF baseExists THEN {BadState} ELSE {})
          /\ DeltaErr(t)
          /\ UNCHANGED tryResult
    /\ UNCHANGED <<ctor, foreign, stateFile, flags, mutex, baseExists, liveData, tmpDir, ret,
                   after, attempts, fetcher, updDone>>

(***************************************************************************)
(* Server::snapshot_update, Server::snapshot_into_tmp.                     *)
(***************************************************************************)
\* let tmp_dir = ServerDir::create(http.tmp_dir()).map_err(|_| Error)?;
\* a fresh, empty directory.
SCreate(t) ==
    /\ pc[t] = "s_create"
    /\ \/ /\ tmpExists' = TRUE
          /\ tmpState' = NoState
          /\ tmpData' = NoDir
          /\ Goto(t, "s_snapshot")
          /\ UNCHANGED <<frame, tryResult>>
       \/ TryErr(t) /\ UNCHANGED tmpDir
    /\ UNCHANGED <<ctor, foreign, stateFile, flags, mutex, liveDir, ret, after, attempts, fetcher,
                   updDone>>

\* http.snapshot(notify, |uri| tmp_dir.uri_path(uri))?: the objects are
\* written under the temporary directory; a failed download leaves any
\* part of them.
SSnapshot(t) ==
    /\ pc[t] = "s_snapshot"
    /\ snapReqs' = Bump(snapReqs)
    /\ \/ /\ tmpExists
          /\ tmpData' \in Dirs
          /\ Goto(t, "s_digest")
       \/ /\ tmpData' \in (IF tmpExists THEN DirStates ELSE {NoDir})
          /\ Goto(t, "s_cleanup")
    /\ UNCHANGED <<ctor, foreign, stateFile, flags, mutex, liveDir, tmpExists, tmpState, frame, ret,
                   after, attempts, notifyReqs, fetched, tryResult, updDone>>

\* let state = ServerState { session: notify.session_id,
\*     serial: notify.serial, hash: tmp_dir.digest()?.into() };
SDigest(t) ==
    /\ pc[t] = "s_digest"
    /\ \/ /\ DigestOk(tmpData)
          /\ Local(t, [frame[t] EXCEPT
                         !.state = ServerState(frame[t].notify.session_id,
                                               frame[t].notify.serial,
                                               DigestOf(tmpData))])
          /\ Goto(t, "s_save")
       \/ Goto(t, "s_cleanup") /\ UNCHANGED frame
    /\ UNCHANGED <<ctor, foreign, stateFile, flags, mutex, liveDir, tmpDir, ret, after, attempts,
                   fetcher, tryResult, updDone>>

\* let _ = state.save(tmp_dir.state_path()): a failed save is not noticed.
WrongSSave(t) ==
    /\ pc[t] = "s_save"
    /\ tmpState' \in {frame[t].state, tmpState, BadState}
    /\ Goto(t, "m_rm_state")
    /\ UNCHANGED <<ctor, foreign, stateFile, flags, mutex, liveDir, tmpExists, tmpData, frame,
                   ret, after, attempts, fetcher, tryResult, updDone>>

\* state.save(tmp_dir.state_path())
SSave(t) ==
    /\ pc[t] = "s_save"
    /\ \/ /\ tmpExists
          /\ tmpState' = frame[t].state
          /\ Goto(t, "m_rm_state")
       \/ /\ tmpState' \in {tmpState} \cup (IF tmpExists THEN {BadState} ELSE {})
          /\ Goto(t, "s_cleanup")
    /\ UNCHANGED <<ctor, foreign, stateFile, flags, mutex, liveDir, tmpExists, tmpData, frame, ret,
                   after, attempts, fetcher, tryResult, updDone>>

\* fs::remove_dir_all(tmp_dir.base()) failed: the directory stays.  It is
\* never read again, and what it still holds is not tracked.
LeaveTmp ==
    /\ tmpState' = NoState
    /\ tmpData' = NoDir
    /\ UNCHANGED tmpExists

\* snapshot_into_tmp failed: let _ = fs::remove_dir_all(tmp_dir.base());
\* return Err(Error)
SCleanup(t) ==
    /\ pc[t] = "s_cleanup"
    /\ \/ /\ tmpExists
          /\ tmpExists' = FALSE
          /\ tmpState' = NoState
          /\ tmpData' = NoDir
       \/ LeaveTmp
    /\ TryErr(t)
    /\ UNCHANGED <<ctor, foreign, stateFile, flags, mutex, liveDir, ret, after, attempts, fetcher,
                   updDone>>

(***************************************************************************)
(* Server::move_from_tmp.                                                  *)
(***************************************************************************)
\* let _ = fs::remove_file(self.server_dir.state_path());
MRmState(t) ==
    /\ pc[t] = "m_rm_state"
    /\ \/ liveState.kind # "none" /\ liveState' = NoState
       \/ UNCHANGED liveState
    /\ Goto(t, "m_mv_state")
    /\ UNCHANGED <<ctor, foreign, stateFile, flags, mutex, baseExists, liveData, tmpDir, frame, ret,
                   after, attempts, fetcher, tryResult, updDone>>

\* fs::rename(tmp_dir.state_path(), self.server_dir.state_path())?: a
\* failed rename of the state file ends move_from_tmp at once.
WrongMMvState(t) ==
    /\ pc[t] = "m_mv_state"
    /\ \/ /\ baseExists /\ tmpState.kind # "none"
          /\ liveState' = tmpState
          /\ tmpState' = NoState
          /\ Local(t, [frame[t] EXCEPT !.state_res = TRUE])
          /\ Goto(t, "m_rm_data")
          /\ UNCHANGED tryResult
       \/ /\ TryErr(t)
          /\ UNCHANGED <<liveState, tmpState>>
    /\ UNCHANGED <<ctor, foreign, stateFile, flags, mutex, baseExists, liveData,
                   tmpExists, tmpData, ret, after, attempts, fetcher, updDone>>

\* let state_res = fs::rename(tmp_dir.state_path(),
\*                            self.server_dir.state_path())
MMvState(t) ==
    /\ pc[t] = "m_mv_state"
    /\ \/ /\ baseExists /\ tmpState.kind # "none"
          /\ liveState' = tmpState
          /\ tmpState' = NoState
          /\ Local(t, [frame[t] EXCEPT !.state_res = TRUE])
       \/ /\ Local(t, [frame[t] EXCEPT !.state_res = FALSE])
          /\ UNCHANGED <<liveState, tmpState>>
    /\ Goto(t, "m_rm_data")
    /\ UNCHANGED <<ctor, foreign, stateFile, flags, mutex, baseExists, liveData, tmpExists, tmpData,
                   ret, after, attempts, fetcher, tryResult, updDone>>

\* let _ = fs::remove_dir_all(self.server_dir.data_path());
MRmData(t) ==
    /\ pc[t] = "m_rm_data"
    /\ \/ liveData.dir /\ liveData' = NoDir
       \/ liveData' \in Remains(liveData)
    /\ Goto(t, "m_mv_data")
    /\ UNCHANGED <<ctor, foreign, stateFile, flags, mutex, baseExists, liveState, tmpDir, frame, ret,
                   after, attempts, fetcher, tryResult, updDone>>

\* let data_res = fs::rename(tmp_dir.data_path(),
\*                           self.server_dir.data_path()): the target must be
\* absent or an empty directory.
MMvData(t) ==
    /\ pc[t] = "m_mv_data"
    /\ \/ /\ baseExists /\ tmpData.dir
          /\ liveData.files = NoFiles
          /\ liveData' = tmpData
          /\ tmpData' = NoDir
          /\ Local(t, [frame[t] EXCEPT !.data_res = TRUE])
       \/ /\ Local(t, [frame[t] EXCEPT !.data_res = FALSE])
          /\ UNCHANGED <<liveData, tmpData>>
    /\ Goto(t, "m_rm_tmp")
    /\ UNCHANGED <<ctor, foreign, stateFile, flags, mutex, baseExists, liveState, tmpExists,
                   tmpState, ret, after, attempts, fetcher, tryResult, updDone>>

\* if state_res.is_err() && data_res.is_err() { Err(Error) }
WrongMoveResult(f) == f.state_res \/ f.data_res
\* if state_res.is_err() || data_res.is_err() { Err(Error) } else { Ok(()) }
MoveResult(f) == f.state_res /\ f.data_res

\* let _ = fs::remove_dir_all(tmp_dir.base()); and the result
MRmTmp(t) ==
    /\ pc[t] = "m_rm_tmp"
    /\ \/ /\ tmpExists
          /\ tmpExists' = FALSE
          /\ tmpState' = NoState
          /\ tmpData' = NoDir
       \/ LeaveTmp
    /\ IF MoveResult(frame[t]) THEN TryOk(t) ELSE TryErr(t)
    /\ UNCHANGED <<ctor, foreign, stateFile, flags, mutex, liveDir, ret, after, attempts, fetcher,
                   updDone>>

(***************************************************************************)
(* Server::check_broken and the rest of Server::update.                    *)
(***************************************************************************)
\* let state = match ServerState::load(self.server_dir.state_path())
CbLoad(t) ==
    /\ pc[t] = "cb_load"
    /\ \/ /\ liveState.kind = "ok"
          /\ Local(t, [frame[t] EXCEPT !.state = liveState])
          /\ Goto(t, "cb_digest")
          /\ UNCHANGED broken
       \/ /\ broken' = TRUE
          /\ Goto(t, "u_remove")
          /\ UNCHANGED frame
    /\ UNCHANGED <<ctor, foreign, stateFile, updated, mutex, liveDir, tmpDir, ret, after, attempts,
                   fetcher, tryResult, updDone>>

\* A digest that differs from the stored hash is let through.
WrongCbDigest(t) ==
    /\ pc[t] = "cb_digest"
    /\ \/ /\ DigestOk(liveData)
          /\ Goto(t, "u_store")
          /\ UNCHANGED broken
       \/ /\ broken' = TRUE
          /\ Goto(t, "u_remove")
    /\ Local(t, NoFrame)
    /\ UNCHANGED <<ctor, foreign, stateFile, updated, mutex, liveDir, tmpDir, ret, after, attempts,
                   fetcher, tryResult, updDone>>

\* let digest = match self.server_dir.digest(); then
\* verify_slices_are_equal(digest.as_ref(), state.hash.as_ref()): the
\* digests are equal, or they differ, or the digest cannot be computed.
CbDigest(t) ==
    /\ pc[t] = "cb_digest"
    /\ \/ /\ check_digest(liveData, frame[t].state.hash)
          /\ Goto(t, "u_store")
          /\ UNCHANGED broken
       \/ /\ DigestOk(liveData)
          /\ DigestOf(liveData) # frame[t].state.hash
          /\ broken' = TRUE
          /\ Goto(t, "u_remove")
       \/ /\ broken' = TRUE
          /\ Goto(t, "u_remove")
    /\ Local(t, NoFrame)
    /\ UNCHANGED <<ctor, foreign, stateFile, updated, mutex, liveDir, tmpDir, ret, after, attempts,
                   fetcher, tryResult, updDone>>

\* fs::remove_dir_all on the server directory: it is gone, or, when the call
\* fails, any part of it is left.
RemoveBase ==
    \/ /\ baseExists
       /\ baseExists' = FALSE
       /\ liveState' = NoState
       /\ liveData' = NoDir
    \/ /\ liveState' \in {liveState, NoState}
       /\ liveData' \in Remains(liveData) \cup {NoDir}
       /\ UNCHANGED baseExists

\* if self.check_broken() { let _ = fs::remove_dir_all(self.server_dir.base()); }
URemove(t) ==
    /\ pc[t] = "u_remove"
    /\ RemoveBase
    /\ Goto(t, "u_store")
    /\ UNCHANGED <<ctor, foreign, stateFile, flags, mutex, tmpDir, frame, ret, after, attempts,
                   fetcher, tryResult, updDone>>

\* self.updated.store(true, Relaxed);
UStore(t) ==
    /\ pc[t] = "u_store"
    /\ updated' = TRUE
    /\ Goto(t, "u_unlock")
    /\ UNCHANGED <<ctor, foreign, stateFile, broken, mutex, liveDir, tmpDir, frame, ret, after,
                   attempts, fetcher, tryResult, updDone>>

\* update returns and the guard is leaked: the mutex stays locked.
WrongUUnlock(t) ==
    /\ pc[t] = "u_unlock"
    /\ Return(t)
    /\ updDone' = TRUE
    /\ UNCHANGED <<ctor, foreign, stateFile, flags, mutex, liveDir, tmpDir, frame, ret,
                   attempts, fetcher, tryResult>>

\* update returns; _lock is dropped.
UUnlock(t) ==
    /\ pc[t] = "u_unlock"
    /\ mutex' = IF mutex = t THEN 0 ELSE mutex
    /\ Return(t)
    /\ updDone' = TRUE
    /\ UNCHANGED <<ctor, foreign, stateFile, flags, liveDir, tmpDir, frame, ret, attempts, fetcher,
                   tryResult>>

(***************************************************************************)
(* Server::load_file, for the one object path.                             *)
(***************************************************************************)
\* The broken flag is not looked at.
WrongLBroken(t) ==
    /\ pc[t] = "idle"
    /\ after' = [after EXCEPT ![t] = updDone]
    /\ Goto(t, "l_open")
    /\ UNCHANGED <<ctor, foreign, stateFile, flags, mutex, liveDir, tmpDir, frame, ret, attempts,
                   fetcher, tryResult, updDone>>

\* A thread calls load_file: if self.broken.load(Relaxed) { return Err(Error) }
LBroken(t) ==
    /\ pc[t] = "idle"
    /\ after' = [after EXCEPT ![t] = updDone]
    /\ IF broken
         THEN Goto(t, "l_done") /\ ret' = [ret EXCEPT ![t] = "Unusable"]
         ELSE Goto(t, "l_open") /\ UNCHANGED ret
    /\ UNCHANGED <<ctor, foreign, stateFile, flags, mutex, liveDir, tmpDir, frame, attempts,
                   fetcher, tryResult, updDone>>

\* A file that cannot be read marks the server broken.
WrongLOpen(t) ==
    /\ pc[t] = "l_open"
    /\ \E f \in Files :
         \/ /\ liveData.files[f] # "none"
            /\ ret' = [ret EXCEPT ![t] = liveData.files[f]]
            /\ UNCHANGED broken
         \/ /\ ret' = [ret EXCEPT ![t] = "None"]
            /\ broken' = TRUE
    /\ Goto(t, "l_done")
    /\ UNCHANGED <<ctor, foreign, stateFile, updated, mutex, liveDir, tmpDir, frame, after,
                   attempts, fetcher, tryResult, updDone>>

\* A file that cannot be opened or read fails the call.
WrongLRead(t) ==
    /\ pc[t] = "l_open"
    /\ \E f \in Files :
         \/ /\ liveData.files[f] # "none"
            /\ ret' = [ret EXCEPT ![t] = liveData.files[f]]
         \/ ret' = [ret EXCEPT ![t] = "Unusable"]
    /\ Goto(t, "l_done")
    /\ UNCHANGED <<ctor, foreign, stateFile, flags, mutex, liveDir, tmpDir, frame, after,
                   attempts, fetcher, tryResult, updDone>>

\* fs::File::open(&path), then file.read_to_end(&mut data): the bytes, or
\* Ok(None) when the file is missing or the open or the read fails.
LOpen(t) ==
    /\ pc[t] = "l_open"
    /\ \E f \in Files :
         \/ /\ liveData.files[f] # "none"
            /\ ret' = [ret EXCEPT ![t] = liveData.files[f]]
         \/ ret' = [ret EXCEPT ![t] = "None"]
    /\ Goto(t, "l_done")
    /\ UNCHANGED <<ctor, foreign, stateFile, flags, mutex, liveDir, tmpDir, frame, after, attempts,
                   fetcher, tryResult, updDone>>

\* load_file returns.
LDone(t) ==
    /\ pc[t] = "l_done"
    /\ Return(t)
    /\ ret' = [ret EXCEPT ![t] = "-"]
    /\ UNCHANGED <<ctor, foreign, stateFile, flags, mutex, liveDir, tmpDir, frame, attempts,
                   fetcher, tryResult, updDone>>

(***************************************************************************)
(* Server::remove_unused.                                                  *)
(***************************************************************************)
\* if self.updated.load(Relaxed) { return false }
WrongRCheck(t) ==
    /\ pc[t] = "idle"
    /\ IF updated
         THEN Goto(t, "r_done") /\ ret' = [ret EXCEPT ![t] = "false"]
         ELSE Goto(t, "r_remove") /\ UNCHANGED ret
    /\ UNCHANGED <<ctor, foreign, stateFile, flags, mutex, liveDir, tmpDir, frame, after,
                   attempts, fetcher, tryResult, updDone>>

\* A thread calls remove_unused:
\* if self.updated.load(Relaxed) && !self.broken.load(Relaxed) { return false }
\* broken is stored before updated, so the two loads see what one would.
RCheck(t) ==
    /\ pc[t] = "idle"
    /\ IF updated /\ ~broken
         THEN Goto(t, "r_done") /\ ret' = [ret EXCEPT ![t] = "false"]
         ELSE Goto(t, "r_remove") /\ UNCHANGED ret
    /\ UNCHANGED <<ctor, foreign, stateFile, flags, mutex, liveDir, tmpDir, frame, after, attempts,
                   fetcher, tryResult, updDone>>

\* let _ = fs::remove_dir_all(self.server_dir.base()); true
RRemove(t) ==
    /\ pc[t] = "r_remove"
    /\ RemoveBase
    /\ Goto(t, "r_done")
    /\ ret' = [ret EXCEPT ![t] = "true"]
    /\ UNCHANGED <<ctor, foreign, stateFile, flags, mutex, tmpDir, frame, after, attempts, fetcher,
                   tryResult, updDone>>

\* remove_unused returns.
RDone(t) ==
    /\ pc[t] = "r_done"
    /\ Return(t)
    /\ ret' = [ret EXCEPT ![t] = "-"]
    /\ UNCHANGED <<ctor, foreign, stateFile, flags, mutex, liveDir, tmpDir, frame, attempts,
                   fetcher, tryResult, updDone>>

(***************************************************************************)
(* A foreign actor: another process that rewrites the data directory while *)
(* collect_delta_targets downloads the deltas.                             *)
(***************************************************************************)
Foreign ==
    /\ \E t \in Threads : pc[t] = "d_fetch"
    /\ liveData' \in DirStates \ {liveData}
    /\ baseExists
    /\ foreign' = TRUE
    /\ UNCHANGED <<ctor, stateFile, flags, mutex, baseExists, liveState, tmpDir,
                   pc, frame, ret, after, attempts, fetcher, tryResult, updDone>>

(***************************************************************************)
(* The text of the state file: ServerState::_save, ServerState::_load and  *)
(* process_line.  A file is a sequence of lines, a line a sequence of      *)
(* symbols: a blank, or a piece of a word.  The keys, the notify URI, a    *)
(* session and a hash in hex are one piece each, a serial is written in    *)
(* decimal digits.                                                         *)
(***************************************************************************)
Blank == " "
Digits == <<"0", "1", "2", "3", "4", "5", "6", "7", "8", "9">>
HexNames == <<"e3b0", "4f1a", "9c2d">>
HashIndex ==
    CHOOSE f \in [Hashes -> 1..Cardinality(Hashes)] :
        \A x, y \in Hashes : x # y => f[x] # f[y]
\* Display of DigestHex.
HexOf(h) == HexNames[HashIndex[h]]

RECURSIVE Decimal(_)
\* Display of usize.
Decimal(n) ==
    IF n < 10 THEN <<Digits[n + 1]>>
    ELSE Decimal(n \div 10) \o <<Digits[(n % 10) + 1]>>

RECURSIVE WordVal(_)
\* The number a word of digits stands for.
WordVal(w) ==
    IF w = <<>> THEN 0
    ELSE 10 * WordVal(SubSeq(w, 1, Len(w) - 1))
         + ((CHOOSE d \in 1..10 : Digits[d] = w[Len(w)]) - 1)

\* T::from_str(value) for the four fields; usize::from_str fails on a
\* number above usize::MAX.
FromStr(field, w) ==
    CASE field = "notify-uri:" ->
           [ok |-> w = <<"uri">>, session |-> "A", serial |-> 0, hash |-> {}]
      [] field = "session:" ->
           IF Len(w) = 1 /\ w[1] \in Sessions
             THEN [ok |-> TRUE, session |-> w[1], serial |-> 0, hash |-> {}]
             ELSE [ok |-> FALSE, session |-> "A", serial |-> 0, hash |-> {}]
      [] field = "serial:" ->
           IF /\ w # <<>>
              /\ \A i \in 1..Len(w) : \E d \in 1..10 : Digits[d] = w[i]
              /\ WordVal(w) <= MaxSerial
             THEN [ok |-> TRUE, session |-> "A", serial |-> WordVal(w), hash |-> {}]
             ELSE [ok |-> FALSE, session |-> "A", serial |-> 0, hash |-> {}]
      [] field = "hash:" ->
           IF Len(w) = 1 /\ \E h \in Hashes : HexOf(h) = w[1]
             THEN [ok |-> TRUE, session |-> "A", serial |-> 0,
                   hash |-> CHOOSE h \in Hashes : HexOf(h) = w[1]]
             ELSE [ok |-> FALSE, session |-> "A", serial |-> 0, hash |-> {}]

RECURSIVE Split(_, _, _)
Split(line, word, words) ==
    IF line = <<>>
      THEN (IF word = <<>> THEN words ELSE Append(words, word))
    ELSE IF Head(line) = Blank
      THEN Split(Tail(line), <<>>,
                 IF word = <<>> THEN words ELSE Append(words, word))
    ELSE Split(Tail(line), Append(word, Head(line)), words)
\* str::split_whitespace: the words of a line, blanks at either end and
\* runs of blanks dropped.
split_whitespace(line) == Split(line, <<>>, <<>>)

NoValue == [ok |-> FALSE, session |-> "A", serial |-> 0, hash |-> {}]
\* A second word after the value is not looked for.
WrongProcessLine(lines, i, expected_key) ==
    IF i > Len(lines) THEN NoValue
    ELSE LET line == split_whitespace(lines[i]) IN
         IF Len(line) = 0 THEN NoValue
         ELSE IF line[1] # <<expected_key>> THEN NoValue
         ELSE IF Len(line) < 2 THEN NoValue
         ELSE FromStr(expected_key, line[2])
\* process_line on the i-th line of the file.
process_line(lines, i, expected_key) ==
    IF i > Len(lines) THEN NoValue
    ELSE LET line == split_whitespace(lines[i]) IN
         IF Len(line) = 0 THEN NoValue
         ELSE IF line[1] # <<expected_key>> THEN NoValue
         ELSE IF Len(line) < 2 THEN NoValue
         ELSE IF Len(line) > 2 THEN NoValue
         ELSE FromStr(expected_key, line[2])

\* ServerState::_load on the lines of a file that could be opened.
load(lines) ==
    LET notify_uri == process_line(lines, 1, "notify-uri:")
        session == process_line(lines, 2, "session:")
        serial == process_line(lines, 3, "serial:")
        hash == process_line(lines, 4, "hash:")
    IN  IF ~(notify_uri.ok /\ session.ok /\ serial.ok /\ hash.ok) THEN BadState
        ELSE IF Len(lines) > 4 THEN BadState
        ELSE ServerState(session.session, serial.serial, hash.hash)

\* ServerState::_save: writeln!(file,
\*     "notify-uri: {}\nsession: {}\nserial: {}\nhash: {}", ...)
save(state) ==
    << <<"notify-uri:", Blank, "uri">>,
       <<"session:", Blank, state.session>>,
       <<"serial:", Blank>> \o Decimal(state.serial),
       <<"hash:", Blank, HexOf(state.hash)>> >>

\* A state is written to a file.
SaveFile ==
    /\ \E state \in ServerStates :
          /\ saved' = state
          /\ text' = save(state)
    /\ edit' = "saved"
    /\ loaded' = NoState
    /\ UNCHANGED <<ctor, foreign, flags, mutex, liveDir, tmpDir, pc, frame, ret,
                   after, attempts, fetcher, tryResult, updDone>>

\* What the file is changed to before it is read: once, in one place.
Edited(kind, lines) ==
    /\ edit = "saved"
    /\ loaded = NoState
    /\ text' = lines
    /\ edit' = kind
    /\ UNCHANGED <<ctor, foreign, saved, loaded, flags, mutex, liveDir, tmpDir, pc,
                   frame, ret, after, attempts, fetcher, tryResult, updDone>>

\* Blanks at the end of a line, at its start, or more of them after the key.
TrailingBlank ==
    \E i \in 1..Len(text) :
        Edited("trailing", [text EXCEPT ![i] = Append(@, Blank)])
LeadingBlank ==
    \E i \in 1..Len(text) :
        Edited("leading", [text EXCEPT ![i] = <<Blank>> \o @])
WideBlank ==
    \E i \in 1..Len(text) :
        Edited("wide", [text EXCEPT ![i] = <<Head(@), Blank>> \o Tail(@)])
\* One more line: empty, blank, or a copy of a line of the file, anywhere.
ExtraLine ==
    \E i \in 0..Len(text) :
        \E line \in {<<>>, <<Blank>>} \cup {text[j] : j \in 1..Len(text)} :
            Edited("extra", SubSeq(text, 1, i) \o <<line>>
                            \o SubSeq(text, i + 1, Len(text)))
\* One line less.
MissingLine ==
    \E i \in 1..Len(text) :
        Edited("missing", SubSeq(text, 1, i - 1) \o SubSeq(text, i + 1, Len(text)))
\* Another key, or none, in the place of a key.
WrongKey ==
    /\ edit = "saved"
    /\ \E i \in 1..Len(text) :
        \E key \in {"notify-uri:", "session:", "serial:", "hash:", "uri:",
                    "session"} \ {Head(text[i])} :
            Edited("key", [text EXCEPT ![i] = <<key>> \o Tail(@)])
\* Two lines change places.
SwapLines ==
    \E i, j \in 1..Len(text) :
        /\ i < j
        /\ Edited("reordered", [text EXCEPT ![i] = text[j], ![j] = text[i]])
\* No value on a line, or two.
MissingValue ==
    /\ edit = "saved"
    /\ \E i \in 1..Len(text) :
        \E line \in {<<Head(text[i])>>, <<Head(text[i]), Blank>>} :
            Edited("values", [text EXCEPT ![i] = line])
SecondValue ==
    \E i \in 1..Len(text) :
        Edited("values", [text EXCEPT ![i] = @ \o <<Blank>> \o Tail(Tail(@))])

\* The file is read back.
LoadFile ==
    /\ edit # "start"
    /\ loaded = NoState
    /\ loaded' = load(text)
    /\ UNCHANGED <<ctor, foreign, saved, text, edit, flags, mutex, liveDir, tmpDir,
                   pc, frame, ret, after, attempts, fetcher, tryResult, updDone>>

(***************************************************************************)
(* The specifications.                                                     *)
(***************************************************************************)
UpdateStep(t) ==
    \/ CallUpdate(t) \/ UFast(t) \/ ULock(t) \/ URecheck(t) \/ TNotify(t)
    \/ DLoad(t) \/ DCalc(t) \/ DNoop(t) \/ DCollect(t) \/ DFetch(t)
    \/ DRecheck(t) \/ DApply(t) \/ DDigest(t) \/ DSave(t)
    \/ SCreate(t) \/ SSnapshot(t) \/ SDigest(t) \/ SSave(t) \/ SCleanup(t)
    \/ MRmState(t) \/ MMvState(t) \/ MRmData(t) \/ MMvData(t) \/ MRmTmp(t)
    \/ CbLoad(t) \/ CbDigest(t) \/ URemove(t) \/ UStore(t) \/ UUnlock(t)

LoadStep(t) == LBroken(t) \/ LOpen(t) \/ LDone(t)

RemoveStep(t) == RCheck(t) \/ RRemove(t) \/ RDone(t)

\* Threads calling update, load_file and remove_unused in any interleaving.
Next == \E t \in Threads : UpdateStep(t) \/ LoadStep(t) \/ RemoveStep(t)
Spec == Init /\ [][Next]_vars

\* Threads calling update and load_file only: the validation run, before
\* any cleanup.
NextRun == \E t \in Threads : UpdateStep(t) \/ LoadStep(t)
SpecRun == Init /\ [][NextRun]_vars

\* Threads calling update only, under fair scheduling: a thread inside
\* update takes its next step if that step stays possible, since the
\* fetcher and the filesystem return from every call and a free mutex is
\* handed to a waiting thread.
NextLive == \E t \in Threads : UpdateStep(t)
UpdateRun(t) == pc[t] # "idle" /\ UpdateStep(t)
SpecLive == Init /\ [][NextLive]_vars /\ \A t \in Threads : WF_vars(UpdateRun(t))

\* State files written by save, changed in one place or not, and read back
\* by load, for a Server that is otherwise left alone.
InitFile == Init /\ ctor = "create"
NextFile ==
    \/ SaveFile \/ TrailingBlank \/ LeadingBlank \/ WideBlank \/ ExtraLine
    \/ MissingLine \/ WrongKey \/ SwapLines \/ MissingValue \/ SecondValue
    \/ LoadFile
SpecFile == InitFile /\ [][NextFile]_vars

\* The validation run with a foreign actor at work during delta downloads.
NextForeign == NextRun \/ Foreign
SpecForeign == Init /\ [][NextForeign]_vars

(***************************************************************************)
(* Properties.                                                             *)
(***************************************************************************)
\* Inside the update attempt: try_update, check_broken, the removal.
AttemptPcs ==
    {"t_notify", "d_load", "d_calc", "d_noop", "d_collect", "d_fetch",
     "d_recheck", "d_apply", "d_digest", "d_save", "s_create", "s_snapshot",
     "s_digest", "s_save", "s_cleanup", "m_rm_state", "m_mv_state",
     "m_rm_data", "m_mv_data", "m_rm_tmp", "cb_load", "cb_digest", "u_remove"}
\* Inside a call of update.
UpdatePcs == {"u_fast", "u_lock", "u_recheck", "u_store", "u_unlock"} \cup AttemptPcs
InAttempt == {t \in Threads : pc[t] \in AttemptPcs}

\* The state file loads and its hash is the digest of the live data tree.
Consistent ==
    /\ liveState.kind = "ok"
    /\ DigestOk(liveData)
    /\ liveState.hash = DigestOf(liveData)
\* The state file has the session and serial of the fetched notification.
Fresh ==
    /\ fetched.got
    /\ liveState.kind = "ok"
    /\ liveState.session = fetched.session_id
    /\ liveState.serial = fetched.serial

\* C1: at most one thread at a time is inside the update attempt, it holds
\* the mutex, the attempt is entered at most once, and no thread is in the
\* attempt once updated is true.
ThmC1 ==
    /\ Cardinality(InAttempt) <= 1
    /\ \A t \in InAttempt : mutex = t
    /\ attempts <= 1
    /\ updated => InAttempt = {}
\* The attempt is over and a second caller, holding the mutex, is about to
\* check updated again.
WitC1 == attempts = 1 /\ updated /\ \E t \in Threads : pc[t] = "u_recheck" /\ mutex = t

\* C2 as claimed: once an update call has returned, the fetcher has seen
\* exactly one notification_file request, however the Server was built.
CexC2 == updDone => notifyReqs = 1
\* C2 amended: the fetcher never sees more than one notification_file
\* request; once an update call has returned it has seen exactly one, and
\* none for a Server whose directory allocation failed in create.
ThmC2 ==
    /\ notifyReqs <= 1
    /\ updDone => notifyReqs = (IF ctor = "create_failed" THEN 0 ELSE 1)
\* One caller has returned while another, which passed the first check
\* before, still waits for the mutex.
WitC2 == updDone /\ notifyReqs = 1 /\ \E t \in Threads : pc[t] = "u_lock"

\* C3 as claimed: in every reachable state broken implies updated.
CexC3 == broken => updated
\* C3 amended: broken implies updated whenever no thread holds the update
\* mutex; broken without updated is seen only while the thread holding the
\* mutex is between check_broken and the store to updated.
ThmC3 ==
    (broken /\ ~updated) =>
        \E t \in Threads : mutex = t /\ pc[t] \in {"u_remove", "u_store"}
\* A failed attempt marked the server broken and update has returned.
WitC3 == broken /\ updated /\ mutex = 0 /\ tryResult = "err"

\* C4 as claimed: once updated is true, the state file matches the live
\* tree, or broken is true and the server directory is gone.
CexC4 == updated => (Consistent \/ (broken /\ ~baseExists))
\* C4 amended: once updated is true, the state file loads and its hash
\* equals the digest of the live data tree, or broken is true (the removal
\* of the directory was then attempted, and its failure ignored).
ThmC4 == updated => (Consistent \/ broken)
\* The attempt failed, check_broken found the directory usable.
WitC4 == updated /\ tryResult = "err" /\ ~broken /\ Consistent

\* C5: when try_update has returned Ok, the state file has the session and
\* serial of the fetched notification and the digest of the live data tree.
ThmC5 == tryResult = "ok" => (Fresh /\ Consistent)
\* try_update has just returned Ok by the snapshot path.
WitC5 == tryResult = "ok" /\ snapReqs = 1 /\ \E t \in Threads : pc[t] = "u_store"

\* What load_file may return for the live data tree when it is not broken.
Readable == {"None"} \cup ({liveData.files[f] : f \in Files} \ {"none"})

\* C6 as claimed: a load_file call begun after an update call returned
\* fails with Unusable or reads the tree promoted by that update.
CexC6 ==
    \A t \in Threads : (pc[t] = "l_done" /\ after[t]) =>
        (ret[t] = "Unusable" \/ (tryResult = "ok" /\ Fresh /\ ret[t] \in Readable))
\* C6 amended: a load_file call begun after an update call returned fails
\* with Unusable when the server is broken; otherwise it reads the live
\* tree, whose digest equals the hash of the state file, and that is the
\* tree of the fetched notification when the attempt succeeded and the tree
\* a failed attempt left, accepted by check_broken, when it did not.
ThmC6 ==
    \A t \in Threads : (pc[t] = "l_done" /\ after[t]) =>
        IF broken THEN ret[t] = "Unusable"
        ELSE /\ ret[t] \in Readable
             /\ Consistent
             /\ tryResult = "ok" => Fresh
\* After a failed attempt a file of the tree that was left is read.
WitC6 ==
    \E t \in Threads :
        pc[t] = "l_done" /\ after[t] /\ ret[t] \in Bodies /\ tryResult = "err"

\* C7: a step of an update call begun after an update call returned changes
\* neither the flags nor the directories and asks the fetcher for nothing.
ThmC7 ==
    [][\A t \in Threads :
         (after[t] /\ pc[t] \in UpdatePcs /\ pc'[t] # pc[t]) =>
            /\ UNCHANGED <<flags, liveDir, tmpDir, fetcher, attempts, mutex>>
            /\ pc'[t] = "idle"]_vars
\* A thread has entered update after an update call that ran the attempt.
WitC7 == \E t \in Threads : pc[t] = "u_fast" /\ after[t] /\ attempts = 1

\* C8: a step that changes updated or broken is a step of the thread
\* holding the update mutex.
ThmC8 ==
    [][(updated' # updated \/ broken' # broken) =>
         \E t \in Threads : mutex = t /\ mutex' = t /\ pc'[t] # pc[t]]_vars
\* check_broken has stored broken while another thread is in load_file.
WitC8 ==
    \E t, u \in Threads :
        mutex = t /\ pc[t] = "u_remove" /\ broken /\ pc[u] = "l_open"

\* A step of the thread that holds the mutex, inside the attempt.
UpdaterStep ==
    \E t \in Threads :
        mutex = t /\ mutex' = t /\ pc[t] \in AttemptPcs /\ pc'[t] # pc[t]
\* C9 as claimed: the server directory changes only in steps of the thread
\* that runs the update attempt and holds the mutex.
CexC9 == [][liveDir' # liveDir => UpdaterStep]_vars
\* C9 amended: the server directory changes only in steps of the thread that
\* runs the update attempt and holds the mutex, or in the removal step of a
\* remove_unused call, which takes no mutex.
ThmC9 ==
    [][liveDir' # liveDir =>
         \/ UpdaterStep
         \/ \E t \in Threads : pc[t] = "r_remove" /\ pc'[t] = "r_done"]_vars
\* remove_unused removed the directory under a running attempt.
WitC9 == ~baseExists /\ \E t \in Threads : pc[t] = "r_done" /\ InAttempt # {}

\* calc_deltas as the specification words it.
CalcSpec(n, s) ==
    IF n.session_id # s.session THEN CalcErr
    ELSE IF n.serial = s.serial THEN CalcNone
    ELSE IF \/ Len(n.deltas) = 0
            \/ n.deltas[Len(n.deltas)] # n.serial
            \/ s.serial + 1 > MaxSerial
      THEN CalcErr
    ELSE LET from == {i \in 1..Len(n.deltas) : n.deltas[i] >= s.serial + 1}
         IN  IF from = {} THEN CalcErr
             ELSE LET k == CHOOSE i \in from : \A j \in from : i <= j
                  IN  IF n.deltas[k] > s.serial + 1 THEN CalcErr
                      ELSE CalcSome(SubSeq(n.deltas, k, Len(n.deltas)))

\* C10: calc_deltas gives, for the notification and the loaded state alone,
\* an error, no update, or the deltas from state.serial + 1 on, as specified.
ThmC10 ==
    [][\A t \in Threads :
         (pc[t] = "d_calc" /\ pc'[t] # "d_calc") =>
            LET r == CalcSpec(frame[t].notify, frame[t].state) IN
              CASE r.kind = "err" -> pc'[t] = "s_create"
                [] r.kind = "none" -> pc'[t] = "d_noop"
                [] r.kind = "some" ->
                     pc'[t] = "d_collect" /\ frame'[t].deltas = r.deltas]_vars
\* Older deltas were skipped or not, and two deltas are to be applied.
WitC10 == \E t \in Threads : pc[t] = "d_collect" /\ Len(frame[t].deltas) = 2

\* Inside delta_update, and inside snapshot_update with what it calls.
DeltaPcs ==
    {"d_load", "d_calc", "d_noop", "d_collect", "d_fetch", "d_recheck",
     "d_apply", "d_digest", "d_save"}
SnapshotPcs ==
    {"s_create", "s_snapshot", "s_digest", "s_save", "s_cleanup", "m_rm_state",
     "m_mv_state", "m_rm_data", "m_mv_data", "m_rm_tmp"}

\* C11: in try_update a failed notification fetch ends try_update with an
\* error and neither path is tried; delta_update is entered only after the
\* fetch; when delta_update succeeds try_update returns Ok without
\* snapshot_update; when delta_update fails at any of its steps
\* snapshot_update is entered, only then and so once, and what it returns
\* is what try_update returns.
ThmC11 ==
    [][\A t \in Threads :
         /\ (pc[t] = "t_notify" /\ pc'[t] # pc[t]) =>
               \/ pc'[t] = "d_load" /\ tryResult' = "none" /\ fetched'.got
               \/ /\ pc'[t] = "cb_load" /\ tryResult' = "err"
                  /\ UNCHANGED <<liveDir, tmpDir, snapReqs, fetched>>
         /\ (pc'[t] = "d_load" /\ pc[t] # "d_load") => pc[t] = "t_notify"
         /\ (pc[t] \in DeltaPcs /\ pc'[t] \notin DeltaPcs) =>
               \/ pc'[t] = "u_store" /\ tryResult' = "ok" /\ UNCHANGED <<tmpDir, snapReqs>>
               \/ pc'[t] = "s_create" /\ tryResult' = "none"
         /\ (pc'[t] = "s_create" /\ pc[t] # "s_create") => pc[t] \in DeltaPcs
         /\ (pc[t] \in SnapshotPcs /\ pc'[t] \notin SnapshotPcs) =>
               \/ pc'[t] = "u_store" /\ tryResult' = "ok"
               \/ pc'[t] = "cb_load" /\ tryResult' = "err"
         /\ (pc[t] \in DeltaPcs \cup SnapshotPcs) => tryResult = "none"]_vars
\* The delta update failed after the fetch, the snapshot was requested once
\* and its failure is what try_update returned.
WitC11 == tryResult = "err" /\ fetched.got /\ snapReqs = 1 /\ attempts = 1

\* C12 as claimed: after a failed attempt that check_broken marked broken,
\* the server directory is gone once update has stored updated.
CexC12 == (tryResult = "err" /\ broken /\ updated) => ~baseExists
\* C12 amended: check_broken is entered exactly when try_update returned an
\* error; it sets broken and leads to the removal when the state file does
\* not load, the digest cannot be computed or differs from the stored hash,
\* and leaves broken false and the directory as it is when state and tree
\* agree; the removal is attempted once and its failure ignored, so the
\* directory may remain; either way updated is stored next; broken never
\* returns to false and a load_file call begun while it is true fails with
\* Unusable.
ThmC12 ==
    [][/\ broken => broken'
       /\ \A t \in Threads :
            /\ (pc'[t] = "cb_load" /\ pc[t] # "cb_load") =>
                  tryResult' = "err" /\ ~broken
            /\ (tryResult' # tryResult /\ pc'[t] # pc[t]) =>
                  pc'[t] = (IF tryResult' = "err" THEN "cb_load" ELSE "u_store")
            /\ (pc[t] \in {"cb_load", "cb_digest"} /\ pc'[t] = "u_remove") =>
                  broken' /\ UNCHANGED <<updated, liveDir>>
            /\ (pc[t] = "cb_load" /\ pc'[t] = "cb_digest") =>
                  liveState.kind = "ok" /\ UNCHANGED <<flags, liveDir>>
            /\ (pc[t] = "cb_digest" /\ pc'[t] # pc[t] /\ pc'[t] # "u_remove") =>
                  /\ pc'[t] = "u_store"
                  /\ check_digest(liveData, frame[t].state.hash)
                  /\ ~broken' /\ UNCHANGED <<updated, liveDir>>
            /\ (pc[t] = "u_remove" /\ pc'[t] # pc[t]) =>
                  /\ pc'[t] = "u_store" /\ UNCHANGED flags
                  /\ ~baseExists' \/ baseExists' = baseExists
            /\ (pc[t] = "u_store" /\ pc'[t] # pc[t]) => updated' /\ UNCHANGED <<broken, liveDir>>
            /\ (pc[t] = "idle" /\ pc'[t] \in {"l_open", "l_done"} /\ broken) =>
                  pc'[t] = "l_done" /\ ret'[t] = "Unusable"]_vars
\* The attempt failed, check_broken set broken, the removal failed and left
\* the directory, and a later load_file call failed with Unusable.
WitC12 ==
    /\ tryResult = "err" /\ broken /\ updated /\ baseExists
    /\ \E t \in Threads : pc[t] = "l_done" /\ after[t] /\ ret[t] = "Unusable"

\* C13: whenever the staged deltas are applied, the live tree they are
\* applied to has, as the apply starts, a digest equal to the hash of the
\* state that was loaded from the state file, also when a foreign actor
\* has rewritten the tree during the download; so this holds of every delta
\* update that succeeds.
ThmC13 ==
    [][\A t \in Threads :
         (pc[t] = "d_apply" /\ pc'[t] = "d_digest") =>
            /\ check_digest(liveData, frame[t].state.hash)
            /\ frame[t].state = liveState]_vars
\* A foreign actor rewrote the tree during the download, the deltas were
\* applied all the same and the new state is about to be saved.
WitC13 == foreign /\ \E t \in Threads : pc[t] = "d_save" /\ frame[t].asked # <<>>

ThmC15 ==
    /\ ctor = "create_failed" =>
          /\ broken /\ updated
          /\ notifyReqs = 0 /\ snapReqs = 0 /\ ~fetched.got /\ attempts = 0
          /\ mutex = 0
          /\ ~baseExists /\ liveState = NoState /\ liveData = NoDir /\ ~tmpExists
          /\ \A t \in Threads :
                /\ pc[t] \in {"idle", "u_fast", "l_done", "r_remove", "r_done"}
                /\ pc[t] = "l_done" => ret[t] = "Unusable"
    /\ (ctor # "create_failed" /\ tryResult = "none") => ~updated /\ ~broken
\* On such a Server an update call has returned and a later load_file call
\* has failed with Unusable.
WitC15 ==
    /\ ctor = "create_failed" /\ updDone
    /\ \E t \in Threads : pc[t] = "l_done" /\ after[t] /\ ret[t] = "Unusable"

\* C16 as claimed: a temporary directory exists only while a
\* snapshot_update is running.
CexC16 == tmpExists => \E t \in Threads : pc[t] \in SnapshotPcs
\* C16 amended: once snapshot_update has allocated its temporary directory
\* it exists until the end of snapshot_update; a failed download, digest or
\* state save leads to the cleanup and an error, a failed rename of the
\* state file or of the data directory to an error after the rest of
\* move_from_tmp, and success to Ok only when both renames succeeded; on
\* every one of these ways out the removal of the temporary directory is
\* attempted once and its failure ignored: the directory is gone, or the
\* removal failed and it is left behind.
ThmC16 ==
    [][\A t \in Threads :
         /\ pc[t] \in SnapshotPcs \ {"s_create"} => tmpExists
         /\ (pc[t] = "s_snapshot" /\ pc'[t] # pc[t]) =>
               /\ pc'[t] \in {"s_digest", "s_cleanup"}
               /\ pc'[t] = "s_digest" => tmpData'.dir
         /\ (pc[t] = "s_digest" /\ pc'[t] # pc[t]) =>
               /\ pc'[t] \in {"s_save", "s_cleanup"}
               /\ pc'[t] = "s_save" =>
                     DigestOk(tmpData) /\ frame'[t].state.hash = DigestOf(tmpData)
         /\ (pc[t] = "s_save" /\ pc'[t] # pc[t]) =>
               /\ pc'[t] \in {"m_rm_state", "s_cleanup"}
               /\ pc'[t] = "m_rm_state" =>
                     tmpState' = frame[t].state /\ tmpState'.kind = "ok"
         /\ (pc[t] = "m_mv_state" /\ pc'[t] # pc[t]) =>
               frame'[t].state_res =
                  (tmpState.kind # "none" /\ liveState' = tmpState /\ tmpState' = NoState)
         /\ (pc[t] = "m_mv_data" /\ pc'[t] # pc[t]) =>
               frame'[t].data_res =
                  (tmpData.dir /\ liveData' = tmpData /\ tmpData' = NoDir)
         /\ (pc[t] \in SnapshotPcs \ {"s_create"} /\ pc'[t] \notin SnapshotPcs) =>
               /\ pc[t] \in {"s_cleanup", "m_rm_tmp"}
               /\ ~tmpExists' \/ (tmpState' = NoState /\ tmpData' = NoDir)
               /\ tryResult' =
                    (IF pc[t] = "m_rm_tmp" /\ frame[t].state_res /\ frame[t].data_res
                       THEN "ok" ELSE "err")
               /\ pc'[t] = (IF tryResult' = "ok" THEN "u_store" ELSE "cb_load")]_vars
\* A snapshot_update that had its temporary directory failed, and the
\* directory is gone as try_update returns the error.
WitC16 ==
    /\ tryResult = "err" /\ snapReqs = 1 /\ ~tmpExists
    /\ \E t \in Threads : pc[t] = "cb_load"

\* C17: load_file fails with Unusable exactly when it loads broken = true;
\* otherwise it returns Ok: None when the file is missing or cannot be
\* opened or read, else the bytes of the file; no step of load_file changes
\* the flags, the server directory or the temporary directory.
ThmC17 ==
    [][\A t \in Threads :
         /\ (pc[t] = "idle" /\ pc'[t] \in {"l_open", "l_done"}) =>
               /\ IF broken
                    THEN pc'[t] = "l_done" /\ ret'[t] = "Unusable"
                    ELSE pc'[t] = "l_open" /\ ret'[t] = ret[t]
               /\ UNCHANGED <<flags, mutex, liveDir, tmpDir>>
         /\ (pc[t] = "l_open" /\ pc'[t] # pc[t]) =>
               /\ pc'[t] = "l_done"
               /\ ret'[t] \in Readable
               /\ UNCHANGED <<flags, mutex, liveDir, tmpDir>>
         /\ (pc[t] = "l_done" /\ pc'[t] # pc[t]) =>
               pc'[t] = "idle" /\ UNCHANGED <<flags, mutex, liveDir, tmpDir>>]_vars
\* Before any update attempt, on a server that is not broken, the file is
\* there and load_file returned None: it could not be opened or read.
WitC17 ==
    /\ attempts = 0 /\ ~broken /\ liveData.files["a"] # "none"
    /\ \E t \in Threads : pc[t] = "l_done" /\ ret[t] = "None"

\* C18: under fair scheduling every call of update returns, the one that
\* runs the attempt and the ones that waited for the mutex; and the
\* attempt with its fetches is made once, by one caller.
ThmC18 ==
    /\ \A t \in Threads : (pc[t] \in UpdatePcs) ~> (pc[t] = "idle")
    /\ [](attempts <= 1 /\ notifyReqs <= 1 /\ snapReqs <= 1)
\* The attempt is over and its caller has returned; a caller that had
\* waited for the mutex holds it now and is about to see updated set.
WitC18 ==
    \E t, u \in Threads :
        /\ t # u /\ pc[t] = "u_recheck" /\ mutex = t /\ updated
        /\ pc[u] = "idle" /\ updDone /\ tryResult # "none"

\* C19 as claimed: load gives back the record save wrote when the file was
\* not changed, and fails when a line got a blank at its end, a line was
\* added, removed or moved, a key replaced, or a value removed or added.
CexC19 ==
    loaded # NoState =>
        IF edit = "saved" THEN loaded = saved
        ELSE edit \in {"trailing", "extra", "missing", "key", "reordered", "values"}
                => loaded = BadState
\* C19 amended: load gives back the record save wrote, also when blanks
\* were added at the end or the start of a line or after a key, which
\* split_whitespace drops; load fails when a line was added, removed or
\* moved, a key replaced, or a value removed or added.
ThmC19 ==
    loaded # NoState =>
        IF edit \in {"saved", "trailing", "leading", "wide"}
          THEN loaded = saved /\ loaded.kind = "ok"
          ELSE loaded = BadState
\* A file with a blank at the end of a line was loaded, and one with a
\* serial of the largest value came back unchanged.
WitC19 == edit = "trailing" /\ loaded = saved /\ saved.serial = MaxSerial

\* C20: when the loaded state has the session and the serial of the
\* notification, delta_update asks for no delta and stages nothing, and
\* this is the only case in which it goes on to its bare digest check;
\* that check changes neither the state file nor the tree and asks the
\* fetcher for nothing: try_update returns Ok if the digest of the live
\* tree is the stored hash, and else the snapshot path is taken.
ThmC20 ==
    [][\A t \in Threads :
         /\ (pc[t] = "d_calc" /\ pc'[t] # pc[t]) =>
               /\ pc'[t] = "d_noop" <=>
                     /\ frame[t].notify.session_id = frame[t].state.session
                     /\ frame[t].notify.serial = frame[t].state.serial
               /\ pc'[t] = "d_noop" =>
                     /\ frame'[t].asked = <<>> /\ frame'[t].targets = NoTargets
                     /\ frame'[t].state = frame[t].state
                     /\ UNCHANGED <<flags, liveDir, tmpDir, fetcher, tryResult>>
         /\ (pc'[t] = "d_noop" /\ pc[t] # "d_noop") => pc[t] = "d_calc"
         /\ (pc[t] = "d_noop" /\ pc'[t] # pc[t]) =>
               /\ UNCHANGED <<flags, liveDir, tmpDir, fetcher>>
               /\ \/ /\ pc'[t] = "u_store" /\ tryResult' = "ok"
                     /\ check_digest(liveData, frame[t].state.hash)
                  \/ pc'[t] = "s_create" /\ tryResult' = "none"
               /\ ~check_digest(liveData, frame[t].state.hash) => pc'[t] = "s_create"]_vars
\* The state file has the session and serial of the notification, but its
\* hash is not the digest of the live tree: the snapshot path is entered.
WitC20 ==
    \E t \in Threads :
        /\ pc[t] = "s_create" /\ liveState.kind = "ok"
        /\ frame[t].notify.session_id = liveState.session
        /\ frame[t].notify.serial = liveState.serial
        /\ DigestOk(liveData) /\ DigestOf(liveData) # liveState.hash

\* C21: move_from_tmp is entered after the temporary state file was saved
\* and takes its steps in this order, each touching only its own file or
\* directory: it removes the live state file, renames the temporary state
\* file to the live one, removes the live data tree, renames the temporary
\* data tree to the live one, removes the temporary directory; a failed
\* rename of the state file does not keep it from the later steps; and it
\* returns an error exactly when at least one of the two renames failed.
ThmC21 ==
    [][\A t \in Threads :
         /\ (pc'[t] = "m_rm_state" /\ pc[t] # "m_rm_state") => pc[t] = "s_save"
         /\ (pc[t] = "m_rm_state" /\ pc'[t] # pc[t]) =>
               /\ pc'[t] = "m_mv_state"
               /\ liveState' \in {liveState, NoState}
               /\ UNCHANGED <<baseExists, liveData, tmpDir, tryResult>>
         /\ (pc[t] = "m_mv_state" /\ pc'[t] # pc[t]) =>
               /\ pc'[t] = "m_rm_data"
               /\ IF frame'[t].state_res
                    THEN liveState' = tmpState /\ tmpState' = NoState
                    ELSE UNCHANGED <<liveState, tmpState>>
               /\ UNCHANGED <<baseExists, liveData, tmpExists, tmpData, tryResult>>
         /\ (pc[t] = "m_rm_data" /\ pc'[t] # pc[t]) =>
               /\ pc'[t] = "m_mv_data"
               /\ liveData' \in Remains(liveData) \cup {NoDir}
               /\ frame'[t].state_res = frame[t].state_res
               /\ UNCHANGED <<baseExists, liveState, tmpDir, tryResult>>
         /\ (pc[t] = "m_mv_data" /\ pc'[t] # pc[t]) =>
               /\ pc'[t] = "m_rm_tmp"
               /\ IF frame'[t].data_res
                    THEN liveData' = tmpData /\ tmpData' = NoDir
                    ELSE UNCHANGED <<liveData, tmpData>>
               /\ frame'[t].state_res = frame[t].state_res
               /\ UNCHANGED <<baseExists, liveState, tmpExists, tmpState, tryResult>>
         /\ (pc[t] = "m_rm_tmp" /\ pc'[t] # pc[t]) =>
               /\ UNCHANGED liveDir
               /\ tryResult' = "err" <=> (~frame[t].state_res \/ ~frame[t].data_res)
               /\ tryResult' = "ok" <=> (frame[t].state_res /\ frame[t].data_res)
               /\ pc'[t] = (IF tryResult' = "ok" THEN "u_store" ELSE "cb_load")]_vars
\* The rename of the state file failed; the live data tree was removed and
\* the temporary one renamed to it all the same, and the temporary
\* directory is about to be removed.
WitC21 ==
    \E t \in Threads :
        /\ pc[t] = "m_rm_tmp" /\ ~frame[t].state_res /\ frame[t].data_res
        /\ liveData.dir /\ ~tmpData.dir

\* C22: the deltas calc_deltas chooses are a non-empty suffix of the
\* notification's delta list, in its order, the first with the serial
\* state.serial + 1 and the last with the notification's serial; the
\* fetcher is asked for them one at a time from the front, none twice and
\* none left out, and the apply is reached only when all of them have
\* been asked for.
ThmC22 ==
    [][\A t \in Threads :
         /\ (pc'[t] = "d_collect" /\ pc[t] # "d_collect") =>
               /\ pc[t] = "d_calc"
               /\ LET all == frame[t].notify.deltas
                      chosen == frame'[t].deltas
                  IN  /\ chosen # <<>>
                      /\ \E k \in 1..Len(all) : chosen = SubSeq(all, k, Len(all))
                      /\ chosen[1] = frame[t].state.serial + 1
                      /\ chosen[Len(chosen)] = frame[t].notify.serial
               /\ frame'[t].asked = <<>>
         /\ (pc'[t] = "d_fetch" /\ pc[t] # "d_fetch") =>
               pc[t] = "d_collect" /\ frame'[t] = frame[t]
         /\ (pc[t] = "d_fetch" /\ pc'[t] = "d_fetch" /\ frame'[t] # frame[t]) =>
               /\ frame[t].deltas # <<>>
               /\ frame'[t].asked = Append(frame[t].asked, Head(frame[t].deltas))
               /\ frame'[t].deltas = Tail(frame[t].deltas)
         /\ (pc'[t] = "d_recheck" /\ pc[t] # "d_recheck") =>
               pc[t] = "d_fetch" /\ frame[t].deltas = <<>> /\ frame'[t] = frame[t]
         /\ (pc'[t] = "d_apply" /\ pc[t] # "d_apply") =>
               /\ pc[t] = "d_recheck" /\ frame'[t] = frame[t]
               /\ frame[t].deltas = <<>> /\ frame[t].asked # <<>>
               /\ frame[t].asked[Len(frame[t].asked)] = frame[t].notify.serial
               /\ frame[t].asked[1] = frame[t].state.serial + 1]_vars
\* Two deltas were chosen, the fetcher was asked for both, and the apply
\* is next.
WitC22 ==
    \E t \in Threads :
        /\ pc[t] = "d_apply" /\ Len(frame[t].asked) = 2
        /\ frame[t].asked[1] # frame[t].asked[2]

=============================================================================
